---------------------------- MODULE Spec2Model ----------------------------
(***************************************************************************)
(* A model of the fredLoan ledger: the Ledger engine of                    *)
(* pkg/ledger/ledger.go running against the SQLite store of pkg/store.     *)
(*                                                                         *)
(* The store is the only shared state: the table of loans and the table    *)
(* of transactions.  HTTP handlers run concurrently, so every store call   *)
(* of a ledger method is one atomic step and the method's local copy of    *)
(* the loan lives in the caller's own variables between two calls.  The    *)
(* two batch passes are run by one ticker goroutine, one after the other.  *)
(*                                                                         *)
(* Decimals are modelled as integers.  Add, Sub and Mul of the decimal     *)
(* library are exact; Div rounds its quotient to the library's division    *)
(* precision, which is 16 decimal places in the library and none in the    *)
(* model.  Timestamps (CreatedAt, UpdatedAt, Transaction.Timestamp) and    *)
(* CustomerKey are not modelled.                                           *)
(***************************************************************************)
EXTENDS Integers, Sequences, FiniteSets, Bags, TLC

VARIABLES
    loans,      \* table loans: a function from the stored ids to their rows
    txns,       \* table transactions: a bag of rows (ids and timestamps left out)
    nextID,     \* the next fresh uuid of a loan
    today,      \* the current calendar date, in days
    cr,         \* the CreateLoan call in flight
    pay,        \* the RecordPayment calls in flight, per caller
    batch,      \* the batch pass of the ticker goroutine
    ret,        \* what the last step returned to its caller, or logged
    calls       \* the cost of the calls made so far (bounds the model)

vars == <<loans, txns, nextID, today, cr, pay, batch, ret, calls>>

(***************************************************************************)
(* Bounds of the model.                                                    *)
(***************************************************************************)
MaxLoans == 2
MaxDate == 1
MaxCost == 6
MaxLowDraw == 0
MaxInFlight == 2

Callers == {1, 2}

(***************************************************************************)
(* Constants of the program.                                               *)
(***************************************************************************)
minStatementDay == 1
maxStatementDay == 28
daysInYear == 365

Zero == 0
NoDate == -1

(***************************************************************************)
(* The inputs the callers draw from.                                       *)
(***************************************************************************)
\* CreateLoan's <<principal, baseRate, variance>>: a loan of 2 at a rate of
\* 547 a year (a little under 1.5 a day, which is not a whole number), a
\* loan of a principal of zero at a negative rate, and a loan of a negative
\* principal.
CreateInputs ==
    {<<2, 2 * daysInYear, -183>>,
     <<0, 0, 0 - daysInYear>>,
     <<-1, 2 * daysInYear, -183>>}
PayAmounts == {-1, 1, 2}

(***************************************************************************)
(* shopspring/decimal, on integers.                                        *)
(***************************************************************************)
Add(a, b) == a + b
Sub(a, b) == a - b
Mul(a, b) == a * b
\* Div rounds the quotient to the nearest number of the division precision,
\* a half away from zero.  The divisor of the program is daysInYear.
Div(a, b) ==
    LET q == (2 * (IF a < 0 THEN 0 - a ELSE a) + b) \div (2 * b)
    IN  IF a < 0 THEN 0 - q ELSE q
GreaterThan(a, b) == a > b
LessThanOrEqual(a, b) == a <= b

(***************************************************************************)
(* time.Now().Day(): the day of the month of a date.  Date 0 is the 31st   *)
(* of a 31-day month, date 1 the 1st of the next month.                    *)
(***************************************************************************)
DayOfMonth(d) == ((30 + d) % 31) + 1

(***************************************************************************)
(* rand.Intn(n) returns some number of 0..n-1.  The model draws the low    *)
(* outcomes up to MaxLowDraw and the highest one.                          *)
(***************************************************************************)
Intn(n) == {k \in 0..(n - 1) : k <= MaxLowDraw \/ k = n - 1}

assignStatementCycleDay ==
    {k + minStatementDay : k \in Intn(maxStatementDay - minStatementDay + 1)}

(***************************************************************************)
(* models.Loan and models.Transaction.                                     *)
(***************************************************************************)
\* A slip: the variance left out of the effective rate.
EffectiveRate_BaseOnly(baseRate, variance) == baseRate

EffectiveRate(baseRate, variance) == Add(baseRate, variance)

NewLoan(id, principal, baseRate, variance, cycleDay) ==
    [ID |-> id,
     Principal |-> principal,
     Balance |-> principal,
     BaseInterestRate |-> baseRate,
     InterestRateVariance |-> variance,
     InterestRate |-> EffectiveRate(baseRate, variance),
     Status |-> "active",
     LastInterestCalculationDate |-> NoDate,
     StatementCycleDay |-> cycleDay,
     AccruedInterest |-> Zero]

\* The zero value of models.Loan, as a JSON body of {} decodes to.
ZeroLoan ==
    [ID |-> 0,
     Principal |-> Zero,
     Balance |-> Zero,
     BaseInterestRate |-> Zero,
     InterestRateVariance |-> Zero,
     InterestRate |-> Zero,
     Status |-> "",
     LastInterestCalculationDate |-> NoDate,
     StatementCycleDay |-> 0,
     AccruedInterest |-> Zero]

Transaction(loanID, amount, type) ==
    [LoanID |-> loanID, Amount |-> amount, Type |-> type]

(***************************************************************************)
(* SQLiteStore.  Each operator is the effect of one successful statement;  *)
(* the actions below add the failure of the statement as another outcome.  *)
(***************************************************************************)
StoredIDs == DOMAIN loans

StoreCreateLoan(loan) == (loan.ID :> loan) @@ loans

StoreUpdateLoan(loan) == [loans EXCEPT ![loan.ID] = loan]

\* A slip: the number of rows a statement affected not looked at.
RowsAffected_Unchecked(id) == 1

\* result.RowsAffected() of an UPDATE or DELETE of table loans by id.
RowsAffected(id) == IF id \in DOMAIN loans THEN 1 ELSE 0

StoreDeleteLoanRows(id) == [i \in (DOMAIN loans) \ {id} |-> loans[i]]

\* A slip: the transactions of the loan left in place.
StoreDeleteTransactions_Kept(id) == txns

StoreDeleteTransactions(id) ==
    LET kept == {t \in BagToSet(txns) : t.LoanID # id}
    IN  [t \in kept |-> txns[t]]

\* A slip: a missing row read as a zero Loan and no error.
GetLoan_NoRowsIgnored(id) ==
    IF id \in DOMAIN loans
    THEN [loan |-> loans[id], err |-> "nil"]
    ELSE [loan |-> [ZeroLoan EXCEPT !.ID = id], err |-> "nil"]

\* SELECT ... FROM loans WHERE id = ?: the row, or sql.ErrNoRows.
GetLoan(id) ==
    IF id \in DOMAIN loans
    THEN [loan |-> loans[id], err |-> "nil"]
    ELSE [loan |-> ZeroLoan, err |-> "loan not found"]

\* FOREIGN KEY(loan_id) REFERENCES loans(id).
ForeignKeyHolds(tx) == tx.LoanID \in DOMAIN loans

\* PRAGMA foreign_keys = ON is executed once, on one connection of the
\* pool of database/sql, and the setting is the connection's own: a
\* statement runs on a connection that checks foreign keys or on one that
\* does not.
ForeignKeysOn == BOOLEAN

\* The insert of a transaction passes the connection's checks.
InsertAllowed(tx, enforced) == enforced => ForeignKeyHolds(tx)

StoreCreateTransaction(tx) == txns (+) SetToBag({tx})

RECURSIVE ActiveFrom(_)
ActiveFrom(i) ==
    IF i > MaxLoans + 1 THEN <<>>
    ELSE IF i \in DOMAIN loans /\ loans[i].Status = "active"
         THEN <<loans[i]>> \o ActiveFrom(i + 1)
         ELSE ActiveFrom(i + 1)

\* SELECT ... FROM loans WHERE status = 'active', in insertion order.
GetAllActiveLoans == ActiveFrom(1)

(***************************************************************************)
(* The callers' variables when no call is in flight.                       *)
(***************************************************************************)
IdleCreate == [pc |-> "idle", loan |-> ZeroLoan]
\* No Transaction: what a call that fails returns in its place.
NoTransaction == [LoanID |-> 0, Amount |-> Zero, Type |-> ""]

\* read is the balance GetLoan returned, returned the Transaction the
\* caller's last call returned.
IdlePay == [pc |-> "idle", loan |-> ZeroLoan, amount |-> Zero, read |-> Zero,
            returned |-> NoTransaction]
IdleBatch == [pc |-> "idle", snap |-> <<>>, idx |-> 1, date |-> NoDate,
              loan |-> ZeroLoan]

\* A call's answer: the method, the caller, the loan and the error (or "ok").
\* A batch pass returns nothing: its answer is the line it prints when a
\* store call fails.
Return(op, p, id, res) == [op |-> op, id |-> id, res |-> res]
NoReturn == Return("none", 0, 0, "none")

\* The calls in flight: a call is in flight between its first store call
\* and its return.
InFlight ==
    Cardinality({p \in Callers : pay[p].pc # "idle"})
        + (IF cr.pc # "idle" THEN 1 ELSE 0)
        + (IF batch.pc # "idle" THEN 1 ELSE 0)

\* A call may start while fewer than MaxInFlight are in flight and the calls
\* made so far leave room for its cost: 1 for CreateLoan and for a batch
\* pass, 2 for RecordPayment, UpdateLoan and DeleteLoan.
CanStart(cost) ==
    /\ InFlight < MaxInFlight
    /\ calls + cost <= MaxCost

Init ==
    /\ loans = <<>>
    /\ txns = EmptyBag
    /\ nextID = 1
    /\ today = 0
    /\ cr = IdleCreate
    /\ pay = [p \in Callers |-> IdlePay]
    /\ batch = IdleBatch
    /\ ret = NoReturn
    /\ calls = 0

(***************************************************************************)
(* Ledger.CreateLoan: storage.CreateLoan, then storage.CreateTransaction.  *)
(***************************************************************************)
CreateLoan_Store ==
    /\ cr.pc = "idle"
    /\ CanStart(1)
    /\ calls' = calls + 1
    /\ nextID <= MaxLoans
    /\ \E in \in CreateInputs, cycleDay \in assignStatementCycleDay :
          LET loan == NewLoan(nextID, in[1], in[2], in[3], cycleDay)
          IN  \/ /\ loans' = StoreCreateLoan(loan)
                 /\ nextID' = nextID + 1
                 /\ cr' = [pc |-> "stored", loan |-> loan]
                 /\ ret' = NoReturn
              \/ /\ ret' = Return("CreateLoan", 0, 0, "failed to store loan")
                 /\ UNCHANGED <<loans, nextID, cr>>
    /\ UNCHANGED <<txns, today, pay, batch>>

CreateLoan_Transaction ==
    /\ cr.pc = "stored"
    /\ LET tx == Transaction(cr.loan.ID, cr.loan.Principal, "disbursement")
       IN  \/ /\ \E enforced \in ForeignKeysOn : InsertAllowed(tx, enforced)
              /\ txns' = StoreCreateTransaction(tx)
              /\ ret' = Return("CreateLoan", 0, cr.loan.ID, "ok")
           \/ /\ ret' = Return("CreateLoan", 0, cr.loan.ID,
                               "failed to store disbursement transaction")
              /\ UNCHANGED txns
    /\ cr' = IdleCreate
    /\ UNCHANGED <<loans, nextID, today, pay, batch, calls>>

(***************************************************************************)
(* Ledger.RecordPayment: storage.GetLoan, the new balance and status on    *)
(* the caller's copy, storage.UpdateLoan, storage.CreateTransaction.       *)
(***************************************************************************)
\* A slip: a balance of exactly zero left open.
ClosesLoan_BelowZeroOnly(balance) == balance < Zero

ClosesLoan(balance) == LessThanOrEqual(balance, Zero)

ApplyPayment(loan, amount) ==
    LET balance == Sub(loan.Balance, amount)
    IN  IF ClosesLoan(balance)
        THEN [loan EXCEPT !.Status = "closed", !.Balance = Zero]
        ELSE [loan EXCEPT !.Balance = balance]

\* A second caller is taken only for a call that overlaps the first's.
CallerFree(p) ==
    /\ pay[p].pc = "idle"
    /\ \A q \in Callers : q < p => pay[q].pc # "idle"

RecordPayment_GetLoan(p) ==
    /\ CallerFree(p)
    /\ CanStart(2)
    /\ calls' = calls + 2
    /\ \E id \in 1..MaxLoans, amount \in PayAmounts :
          LET got == GetLoan(id)
          IN  \/ /\ got.err # "nil"
                 /\ ret' = Return("RecordPayment", p, id, got.err)
                 /\ pay' = [pay EXCEPT ![p] = IdlePay]
              \/ /\ ret' = Return("RecordPayment", p, id, "failed to get loan")
                 /\ pay' = [pay EXCEPT ![p] = IdlePay]
              \/ /\ got.err = "nil"
                 /\ got.loan.Status # "active"
                 /\ ret' = Return("RecordPayment", p, id, "loan is not active")
                 /\ pay' = [pay EXCEPT ![p] = IdlePay]
              \/ /\ got.err = "nil"
                 /\ got.loan.Status = "active"
                 /\ pay' = [pay EXCEPT ![p] =
                              [pc |-> "update",
                               loan |-> ApplyPayment(got.loan, amount),
                               amount |-> amount,
                               read |-> got.loan.Balance,
                               returned |-> NoTransaction]]
                 /\ ret' = NoReturn
    /\ UNCHANGED <<loans, txns, nextID, today, cr, batch>>

RecordPayment_UpdateLoan(p) ==
    /\ pay[p].pc = "update"
    /\ \/ /\ pay[p].loan.ID \in StoredIDs
          /\ loans' = StoreUpdateLoan(pay[p].loan)
          /\ pay' = [pay EXCEPT ![p].pc = "transaction"]
          /\ ret' = NoReturn
       \/ /\ pay' = [pay EXCEPT ![p] = IdlePay]
          /\ ret' = Return("RecordPayment", p, pay[p].loan.ID,
                           "failed to update loan balance")
          /\ UNCHANGED loans
    /\ UNCHANGED <<txns, nextID, today, cr, batch, calls>>

RecordPayment_Transaction(p) ==
    /\ pay[p].pc = "transaction"
    /\ LET tx == Transaction(pay[p].loan.ID, pay[p].amount, "payment")
       IN  \/ /\ \E enforced \in ForeignKeysOn : InsertAllowed(tx, enforced)
              /\ txns' = StoreCreateTransaction(tx)
              /\ ret' = Return("RecordPayment", p, tx.LoanID, "ok")
              /\ pay' = [pay EXCEPT ![p] = [IdlePay EXCEPT !.read = pay[p].read,
                                                          !.returned = tx]]
           \/ /\ ret' = Return("RecordPayment", p, tx.LoanID,
                               "failed to store payment transaction")
              /\ pay' = [pay EXCEPT ![p] = IdlePay]
              /\ UNCHANGED txns
    /\ UNCHANGED <<loans, nextID, today, cr, batch, calls>>

(***************************************************************************)
(* Ledger.CalculateDailyInterest: one storage.GetAllActiveLoans, then one  *)
(* storage.UpdateLoan per loan of the list that accrues.                   *)
(***************************************************************************)
\* A slip: the date gate left out.
AlreadyCalculated_Never(loan, date) == FALSE

AlreadyCalculated(loan, date) ==
    loan.LastInterestCalculationDate # NoDate
        /\ loan.LastInterestCalculationDate = date

DailyInterest(loan) == Mul(loan.Balance, Div(loan.InterestRate, daysInYear))

\* A slip: no loan taken to accrue.
Accrues_Never(loan) == FALSE

\* A slip: the interest tested for being other than zero.
Accrues_NotZero(loan) == DailyInterest(loan) # Zero

Accrues(loan) == GreaterThan(DailyInterest(loan), Zero)

Accrue(loan, date) ==
    [loan EXCEPT !.AccruedInterest = Add(@, DailyInterest(loan)),
                 !.LastInterestCalculationDate = date]

\* The loop moves on to the next loan of the list, or the pass returns.
BatchNext ==
    IF batch.idx < Len(batch.snap)
    THEN [batch EXCEPT !.idx = @ + 1, !.loan = ZeroLoan]
    ELSE IdleBatch

\* A slip: the pass given up at the first store call that fails.
LogAndReturn(next) == IdleBatch

\* A store call of the loop failed: the error is printed and the loop goes
\* on (continue).
LogAndContinue(next) == next

\* The line a pass prints for a store call that failed.
Logged(pass, id, line) == Return(pass, 0, id, line)

BatchStart(pass) ==
    IF GetAllActiveLoans = <<>>
    THEN IdleBatch
    ELSE [pc |-> pass, snap |-> GetAllActiveLoans, idx |-> 1, date |-> today,
          loan |-> ZeroLoan]

CalculateDailyInterest_Start ==
    /\ batch.pc = "idle"
    /\ CanStart(1)
    /\ calls' = calls + 1
    /\ \/ /\ batch' = BatchStart("daily")
          /\ ret' = NoReturn
       \/ /\ batch' = IdleBatch
          /\ ret' = Logged("CalculateDailyInterest", 0,
                           "Error getting active loans")
    /\ UNCHANGED <<loans, txns, nextID, today, cr, pay>>

CalculateDailyInterest_Loan ==
    /\ batch.pc = "daily"
    /\ LET loan == batch.snap[batch.idx]
       IN  IF AlreadyCalculated(loan, batch.date) \/ ~Accrues(loan)
           THEN /\ batch' = BatchNext
                /\ ret' = NoReturn
                /\ UNCHANGED loans
           ELSE \/ /\ loan.ID \in StoredIDs
                   /\ loans' = StoreUpdateLoan(Accrue(loan, batch.date))
                   /\ batch' = BatchNext
                   /\ ret' = NoReturn
                \/ /\ batch' = LogAndContinue(BatchNext)
                   /\ ret' = Logged("CalculateDailyInterest", loan.ID,
                                    "Error updating loan")
                   /\ UNCHANGED loans
    /\ UNCHANGED <<txns, nextID, today, cr, pay, calls>>

(***************************************************************************)
(* Ledger.ApplyMonthlyInterest: one storage.GetAllActiveLoans, then per    *)
(* loan on its statement day with accrued interest one                     *)
(* storage.CreateTransaction followed by one storage.UpdateLoan.           *)
(***************************************************************************)
\* A slip: the test of the statement day left out.
OnStatementDay_EveryDay(loan, date) == TRUE

OnStatementDay(loan, date) == loan.StatementCycleDay = DayOfMonth(date)

HasAccrued(loan) == GreaterThan(loan.AccruedInterest, Zero)

\* A slip: the accrued interest not reset.
Capitalize_AccruedKept(loan) ==
    [loan EXCEPT !.Balance = Add(@, loan.AccruedInterest)]

Capitalize(loan) ==
    [loan EXCEPT !.Balance = Add(@, loan.AccruedInterest),
                 !.AccruedInterest = Zero]

ApplyMonthlyInterest_Start ==
    /\ batch.pc = "idle"
    /\ CanStart(1)
    /\ calls' = calls + 1
    /\ \/ /\ batch' = BatchStart("monthly")
          /\ ret' = NoReturn
       \/ /\ batch' = IdleBatch
          /\ ret' = Logged("ApplyMonthlyInterest", 0,
                           "Error getting active loans")
    /\ UNCHANGED <<loans, txns, nextID, today, cr, pay>>

ApplyMonthlyInterest_Transaction ==
    /\ batch.pc = "monthly"
    /\ LET loan == batch.snap[batch.idx]
           tx == Transaction(loan.ID, loan.AccruedInterest, "interest")
       IN  IF OnStatementDay(loan, batch.date) /\ HasAccrued(loan)
           THEN \/ /\ \E enforced \in ForeignKeysOn :
                         InsertAllowed(tx, enforced)
                   /\ txns' = StoreCreateTransaction(tx)
                   /\ batch' = [batch EXCEPT !.pc = "monthly update",
                                             !.loan = Capitalize(loan)]
                   /\ ret' = NoReturn
                \/ /\ batch' = LogAndContinue(BatchNext)
                   /\ ret' = Logged("ApplyMonthlyInterest", loan.ID,
                                    "Error creating monthly interest transaction")
                   /\ UNCHANGED txns
           ELSE /\ batch' = BatchNext
                /\ ret' = NoReturn
                /\ UNCHANGED txns
    /\ UNCHANGED <<loans, nextID, today, cr, pay, calls>>

ApplyMonthlyInterest_UpdateLoan ==
    /\ batch.pc = "monthly update"
    /\ LET next == [BatchNext EXCEPT
                        !.pc = IF @ = "idle" THEN @ ELSE "monthly"]
       IN  \/ /\ batch.loan.ID \in StoredIDs
              /\ loans' = StoreUpdateLoan(batch.loan)
              /\ batch' = next
              /\ ret' = NoReturn
           \/ /\ batch' = LogAndContinue(next)
              /\ ret' = Logged("ApplyMonthlyInterest", batch.loan.ID,
                               "Error updating loan")
              /\ UNCHANGED loans
    /\ UNCHANGED <<txns, nextID, today, cr, pay, calls>>

(***************************************************************************)
(* Ledger.UpdateLoan and Ledger.DeleteLoan: one store call each.           *)
(***************************************************************************)
\* The bodies a client may PUT: the zero Loan, a row reopened with a debt
\* and interest below zero, the stored row unchanged, and the stored row
\* with its status set to closed.
UpdateBodies(id) ==
    {[ZeroLoan EXCEPT !.ID = id],
     [ZeroLoan EXCEPT !.ID = id, !.Status = "active", !.Principal = 1,
                      !.Balance = -1, !.AccruedInterest = -1,
                      !.StatementCycleDay = 31]}
    \cup (IF id \in StoredIDs
          THEN {loans[id], [loans[id] EXCEPT !.Status = "closed"]}
          ELSE {})

UpdateLoan ==
    /\ calls + 2 <= MaxCost
    /\ calls' = calls + 2
    /\ \E id \in 1..MaxLoans :
          \E loan \in UpdateBodies(id) :
             \/ /\ RowsAffected(id) # 0
                /\ loans' = StoreUpdateLoan(loan)
                /\ ret' = Return("UpdateLoan", 0, id, "ok")
             \/ /\ RowsAffected(id) = 0
                /\ ret' = Return("UpdateLoan", 0, id, "loan not found")
                /\ UNCHANGED loans
             \/ /\ ret' = Return("UpdateLoan", 0, id, "failed to update loan")
                /\ UNCHANGED loans
    /\ UNCHANGED <<txns, nextID, today, cr, pay, batch>>

DeleteLoan ==
    /\ calls + 2 <= MaxCost
    /\ calls' = calls + 2
    /\ \E id \in 1..MaxLoans :
          \/ /\ RowsAffected(id) # 0
             /\ loans' = StoreDeleteLoanRows(id)
             /\ txns' = StoreDeleteTransactions(id)
             /\ ret' = Return("DeleteLoan", 0, id, "ok")
          \/ /\ RowsAffected(id) = 0
             /\ ret' = Return("DeleteLoan", 0, id, "loan not found")
             /\ UNCHANGED <<loans, txns>>
          \/ /\ ret' = Return("DeleteLoan", 0, id, "failed to delete loan")
             /\ UNCHANGED <<loans, txns>>
    /\ UNCHANGED <<nextID, today, cr, pay, batch>>

(***************************************************************************)
(* The process is stopped while a batch pass is in its loop, and started   *)
(* again: every call in flight ends where it is, the store keeps what was  *)
(* committed.                                                              *)
(***************************************************************************)
Halt ==
    /\ batch.pc # "idle"
    /\ batch' = IdleBatch
    /\ cr' = IdleCreate
    /\ pay' = [p \in Callers |-> IdlePay]
    /\ ret' = Return("main", 0, 0, "halted")
    /\ UNCHANGED <<loans, txns, nextID, today, calls>>

(***************************************************************************)
(* The calendar date changes at midnight UTC.                              *)
(***************************************************************************)
NextDay ==
    /\ today < MaxDate
    /\ today' = today + 1
    /\ ret' = NoReturn
    /\ UNCHANGED <<loans, txns, nextID, cr, pay, batch, calls>>

Next ==
    \/ CreateLoan_Store
    \/ CreateLoan_Transaction
    \/ \E p \in Callers : RecordPayment_GetLoan(p)
    \/ \E p \in Callers : RecordPayment_UpdateLoan(p)
    \/ \E p \in Callers : RecordPayment_Transaction(p)
    \/ CalculateDailyInterest_Start
    \/ CalculateDailyInterest_Loan
    \/ ApplyMonthlyInterest_Start
    \/ ApplyMonthlyInterest_Transaction
    \/ ApplyMonthlyInterest_UpdateLoan
    \/ UpdateLoan
    \/ DeleteLoan
    \/ Halt
    \/ NextDay

Spec == Init /\ [][Next]_vars

(***************************************************************************)
(* What the claims speak of.                                               *)
(***************************************************************************)
\* No call is in flight.
Quiescent == InFlight = 0

RECURSIVE SumAmounts(_)
SumAmounts(rows) ==
    IF rows = {} THEN 0
    ELSE LET t == CHOOSE r \in rows : TRUE
         IN  t.Amount * txns[t] + SumAmounts(rows \ {t})

\* The sum of the amounts of the transactions of a type.
SumOfType(type) == SumAmounts({t \in BagToSet(txns) : t.Type = type})

RECURSIVE SumLoans(_, _)
SumLoans(ids, field) ==
    IF ids = {} THEN 0
    ELSE LET id == CHOOSE i \in ids : TRUE
         IN  loans[id][field] + SumLoans(ids \ {id}, field)

HasTransaction(id, type) ==
    \E t \in BagToSet(txns) : t.LoanID = id /\ t.Type = type

\* The loans stored before and after a step.
Kept == DOMAIN loans \cap DOMAIN loans'

\* The step is one of the batch pass.
BatchStep == batch' # batch

Max(a, b) == IF a >= b THEN a ELSE b

(***************************************************************************)
(* C1.  Every stored loan has balance >= 0 and accruedInterest >= 0, in    *)
(* every reachable state.                                                  *)
(***************************************************************************)
C1_BalanceAndAccruedNonNegative ==
    \A id \in StoredIDs :
        loans[id].Balance >= 0 /\ loans[id].AccruedInterest >= 0

(***************************************************************************)
(* C2.  A stored loan's status changes in no step but a RecordPayment      *)
(* that brings the balance to zero or below, and then from active to       *)
(* closed: a closed loan is never active again.                            *)
(***************************************************************************)
C2_StatusOnlyActiveToClosed ==
    [][\A id \in Kept :
          loans'[id].Status # loans[id].Status =>
              /\ loans[id].Status = "active"
              /\ loans'[id].Status = "closed"
              /\ \E p \in Callers :
                    /\ pay[p].pc = "update"
                    /\ pay'[p].pc = "transaction"
                    /\ pay[p].loan.ID = id
                    /\ pay[p].read - pay[p].amount <= 0]_vars

(***************************************************************************)
(* C3.  No lost update: when a RecordPayment has written loan L after a    *)
(* batch pass read L, the batch pass's write of L keeps the payment's      *)
(* balance and status (the balance grows by the capitalized interest in    *)
(* ApplyMonthlyInterest, and is left as it is in CalculateDailyInterest).  *)
(***************************************************************************)
C3_BatchWriteKeepsPayment ==
    [][\A p \in Callers :
          LET id == pay[p].loan.ID
              capitalized == IF batch.pc = "monthly update"
                             THEN batch.snap[batch.idx].AccruedInterest
                             ELSE 0
          IN  (/\ pay[p].pc = "transaction"
               /\ id \in Kept
               /\ loans[id] = pay[p].loan
               /\ BatchStep)
              => /\ loans'[id].Status = loans[id].Status
                 /\ loans'[id].Balance = loans[id].Balance + capitalized]_vars

(***************************************************************************)
(* C4.  When two RecordPayment calls that read the same balance of the     *)
(* same active loan, with amounts a1 > 0 and a2 > 0, have both returned a  *)
(* Transaction, the stored balance is max(balance - a1 - a2, 0).           *)
(***************************************************************************)
C4_ConcurrentPaymentsBothCount ==
    \A p, q \in Callers :
        LET tp == pay[p].returned
            tq == pay[q].returned
        IN  (/\ p # q
             /\ pay[p].pc = "idle" /\ pay[q].pc = "idle"
             /\ tp.Type = "payment" /\ tq.Type = "payment"
             /\ tp.LoanID = tq.LoanID
             /\ tp.LoanID \in StoredIDs
             /\ pay[p].read = pay[q].read
             /\ tp.Amount > 0 /\ tq.Amount > 0)
            => loans[tp.LoanID].Balance
                   = Max(pay[p].read - tp.Amount - tq.Amount, 0)

(***************************************************************************)
(* C5.  Accrual is idempotent per calendar day: a step of                  *)
(* CalculateDailyInterest on a loan that was read with the date of the     *)
(* pass as its last accrual date changes no loan and no transaction, and   *)
(* every row a step of the pass writes carries the date of the pass, so    *)
(* that a later pass on that date reads it as accrued.                     *)
(***************************************************************************)
C5_AccrualOncePerDay ==
    [][(batch.pc = "daily" /\ BatchStep) =>
          LET loan == batch.snap[batch.idx]
          IN  /\ loan.LastInterestCalculationDate = batch.date
                    => loans' = loans /\ txns' = txns
              /\ \A id \in Kept :
                    loans'[id] # loans[id] =>
                        /\ id = loan.ID
                        /\ loans'[id].LastInterestCalculationDate = batch.date]_vars

\* A second pass on the same date has gone past loan 1, which the first
\* pass accrued, and left it as it was.
C5_Witness ==
    /\ batch.pc = "daily"
    /\ batch.idx = 2
    /\ batch.date = today
    /\ batch.snap[1].LastInterestCalculationDate = today
    /\ batch.snap[1].AccruedInterest > 0
    /\ batch.snap[1].ID \in StoredIDs
    /\ loans[batch.snap[1].ID] = batch.snap[1]

(***************************************************************************)
(* C6.  Conservation: whenever no call is in flight, the disbursement      *)
(* amounts plus the interest amounts minus the payment amounts equal the   *)
(* balances plus the accrued interest, summed over all loans.              *)
(***************************************************************************)
C6_Conservation ==
    Quiescent =>
        SumOfType("disbursement") + SumOfType("interest") - SumOfType("payment")
            = SumLoans(StoredIDs, "Balance")
                  + SumLoans(StoredIDs, "AccruedInterest")

(***************************************************************************)
(* C7.  RecordPayment is atomic: a call whose UpdateLoan was persisted     *)
(* returns with its payment Transaction stored, never with an error and    *)
(* no Transaction; and a call whose UpdateLoan failed leaves the loans     *)
(* and the transactions as they were.                                      *)
(***************************************************************************)
C7_PaymentAtomic ==
    [][\A p \in Callers :
          LET tx == Transaction(pay[p].loan.ID, pay[p].amount, "payment")
          IN  /\ (pay[p].pc = "transaction" /\ pay'[p].pc = "idle")
                    => /\ ret'.res = "ok"
                       /\ CopiesIn(tx, txns') = CopiesIn(tx, txns) + 1
              /\ (pay[p].pc = "update" /\ pay'[p].pc = "idle")
                    => loans' = loans /\ txns' = txns]_vars

(***************************************************************************)
(* C8.  CreateLoan is atomic: whenever no CreateLoan is in flight, every   *)
(* stored loan has its disbursement Transaction and every disbursement     *)
(* Transaction has its loan.                                               *)
(***************************************************************************)
C8_CreateAtomic ==
    cr.pc = "idle" =>
        /\ \A id \in StoredIDs : HasTransaction(id, "disbursement")
        /\ \A t \in BagToSet(txns) :
              t.Type = "disbursement" => t.LoanID \in StoredIDs

(***************************************************************************)
(* C9.  CreateLoan with a principal that is not strictly positive has no   *)
(* side effects: no step stores a loan of such a principal, and no step    *)
(* appends a disbursement Transaction of such an amount.                   *)
(***************************************************************************)
C9_NonPositivePrincipalRejected ==
    [][/\ \A id \in DOMAIN loans' \ DOMAIN loans : loans'[id].Principal > 0
       /\ \A t \in BagToSet(txns') :
             (t.Type = "disbursement" /\ CopiesIn(t, txns') > CopiesIn(t, txns))
                 => t.Amount > 0]_vars

(***************************************************************************)
(* C10.  CreateLoan stores one new loan, active, with balance = principal, *)
(* accruedInterest = 0, effectiveRate = baseRate + variance, no last       *)
(* accrual date and a statement day in 1..28, and changes nothing else;    *)
(* when it returns the loan it has appended exactly one disbursement       *)
(* Transaction of the principal for that loan and changed nothing else.    *)
(***************************************************************************)
C10_CreateLoanEffect ==
    [][/\ (cr.pc = "idle" /\ cr'.pc = "stored") =>
             LET row == loans'[nextID]
             IN  /\ nextID \notin DOMAIN loans
                 /\ DOMAIN loans' = DOMAIN loans \cup {nextID}
                 /\ \A id \in DOMAIN loans : loans'[id] = loans[id]
                 /\ txns' = txns
                 /\ row = cr'.loan
                 /\ row.ID = nextID
                 /\ row.Status = "active"
                 /\ row.Balance = row.Principal
                 /\ row.AccruedInterest = 0
                 /\ row.InterestRate
                        = row.BaseInterestRate + row.InterestRateVariance
                 /\ row.LastInterestCalculationDate = NoDate
                 /\ row.StatementCycleDay \in 1..28
       /\ (cr.pc = "stored" /\ ret'.op = "CreateLoan" /\ ret'.res = "ok") =>
             LET tx == Transaction(cr.loan.ID, cr.loan.Principal, "disbursement")
             IN  /\ loans' = loans
                 /\ BagCardinality(txns') = BagCardinality(txns) + 1
                 /\ CopiesIn(tx, txns') = CopiesIn(tx, txns) + 1]_vars

\* CreateLoan has returned a second loan, of a rate with a negative
\* variance, and its disbursement Transaction is stored.
C10_Witness ==
    /\ ret = Return("CreateLoan", 0, 2, "ok")
    /\ StoredIDs = {1, 2}
    /\ loans[2].InterestRateVariance < 0
    /\ loans[2].InterestRate > 0
    /\ loans[2].Status = "active"
    /\ CopiesIn(Transaction(2, loans[2].Principal, "disbursement"), txns) = 1

\* The step starts a RecordPayment for loan id that returns at once.
PaymentRefused(id) ==
    calls' # calls /\ ret'.op = "RecordPayment" /\ ret'.id = id

\* The step starts caller p's RecordPayment for loan id, which goes on to
\* its UpdateLoan.
PaymentAccepted(p, id) ==
    pay[p].pc = "idle" /\ pay'[p].pc = "update" /\ pay'[p].loan.ID = id

\* Caller p's last call was a payment that closed loan id.
ClosedByLastCall(p, id) ==
    /\ pay[p].pc = "idle"
    /\ pay[p].returned.Type = "payment"
    /\ pay[p].returned.LoanID = id
    /\ pay[p].read - pay[p].returned.Amount <= 0

(***************************************************************************)
(* C11.  RecordPayment with amount > 0 on an active loan it read with      *)
(* balance b stores balance max(b - amount, 0), status closed exactly      *)
(* when b - amount <= 0 and active otherwise, and changes no other loan;   *)
(* when it returns it has appended exactly one payment Transaction of the  *)
(* requested amount, which is the one it returns.                          *)
(***************************************************************************)
C11_PaymentEffect ==
    [][\A p \in Callers :
          LET id == pay[p].loan.ID
              b == pay[p].read - pay[p].amount
              tx == Transaction(id, pay[p].amount, "payment")
          IN  /\ (/\ pay[p].pc = "update"
                  /\ pay'[p].pc = "transaction"
                  /\ pay[p].amount > 0)
                 => /\ DOMAIN loans' = DOMAIN loans
                    /\ loans'[id].Balance = Max(b, 0)
                    /\ loans'[id].Status
                           = (IF b <= 0 THEN "closed" ELSE "active")
                    /\ \A j \in DOMAIN loans \ {id} : loans'[j] = loans[j]
                    /\ txns' = txns
              /\ (/\ pay[p].pc = "transaction"
                  /\ pay'[p].pc = "idle"
                  /\ ret'.res = "ok"
                  /\ pay[p].amount > 0)
                 => /\ BagCardinality(txns') = BagCardinality(txns) + 1
                    /\ CopiesIn(tx, txns') = CopiesIn(tx, txns) + 1
                    /\ pay'[p].returned = tx
                    /\ loans' = loans]_vars

\* A payment of 2 on a balance of 1 has returned: the loan is closed with a
\* balance of zero and the Transaction is of 2.
C11_Witness ==
    /\ ret = Return("RecordPayment", 1, 1, "ok")
    /\ pay[1].returned = Transaction(1, 2, "payment")
    /\ pay[1].read = 1
    /\ 1 \in StoredIDs
    /\ loans[1].Status = "closed"
    /\ loans[1].Balance = 0
    /\ CopiesIn(Transaction(1, 2, "payment"), txns) = 1

(***************************************************************************)
(* C12.  RecordPayment on a closed loan fails with "loan is not active"    *)
(* and changes no loan and no Transaction; in particular, once a caller's  *)
(* payment has closed a loan, the caller's next payment on that loan       *)
(* fails.                                                                  *)
(***************************************************************************)
C12_ClosedLoanRefusesPayment ==
    [][\A p \in Callers : \A id \in StoredIDs :
          /\ loans[id].Status = "closed" =>
                /\ ~PaymentAccepted(p, id)
                /\ PaymentRefused(id) =>
                      /\ ret'.res \in {"loan is not active", "failed to get loan"}
                      /\ loans' = loans
                      /\ txns' = txns
          /\ ClosedByLastCall(p, id) => ~PaymentAccepted(p, id)]_vars

(***************************************************************************)
(* C13.  RecordPayment for a loan id that is not stored fails with "loan   *)
(* not found" (or with the store's own failure) and creates or changes no  *)
(* loan and appends no Transaction.                                        *)
(***************************************************************************)
C13_UnknownLoanRefusesPayment ==
    [][\A id \in (1..MaxLoans) \ StoredIDs :
          /\ \A p \in Callers : ~PaymentAccepted(p, id)
          /\ PaymentRefused(id) =>
                /\ ret'.res \in {"loan not found", "failed to get loan"}
                /\ loans' = loans
                /\ txns' = txns]_vars

\* A payment for loan 2, which is not stored, has returned "loan not found"
\* while loan 1 and its disbursement are stored.
C13_Witness ==
    /\ ret = Return("RecordPayment", 1, 2, "loan not found")
    /\ StoredIDs = {1}
    /\ HasTransaction(1, "disbursement")

\* The number of transactions of a type stored for a loan.
TransactionsOf(id, type) ==
    LET rows == {t \in BagToSet(txns) : t.LoanID = id /\ t.Type = type}
    IN  BagCardinality([t \in rows |-> txns[t]])

(***************************************************************************)
(* C14.  A payment of an amount <= 0 is rejected before it changes         *)
(* anything: no RecordPayment of such an amount gets as far as its         *)
(* UpdateLoan, and no payment Transaction of such an amount is stored.     *)
(***************************************************************************)
C14_NonPositivePaymentRejected ==
    /\ \A p \in Callers : pay[p].pc # "idle" => pay[p].amount > 0
    /\ \A t \in BagToSet(txns) : t.Type = "payment" => t.Amount > 0

(***************************************************************************)
(* C15.  When ApplyMonthlyInterest capitalizes a loan it read as active,   *)
(* on its statement day, with accruedInterest = a > 0, and no store call   *)
(* fails, it appends exactly one interest Transaction of amount a for the  *)
(* loan and then stores the loan with balance = the balance read + a and   *)
(* accruedInterest = 0, changing nothing else.                             *)
(***************************************************************************)
C15_CapitalizationEffect ==
    [][LET loan == batch.snap[batch.idx]
           a == loan.AccruedInterest
           tx == Transaction(loan.ID, a, "interest")
       IN  /\ (batch.pc = "monthly" /\ batch'.pc = "monthly update") =>
                 /\ a > 0
                 /\ loan.Status = "active"
                 /\ loan.StatementCycleDay = DayOfMonth(batch.date)
                 /\ BagCardinality(txns') = BagCardinality(txns) + 1
                 /\ CopiesIn(tx, txns') = CopiesIn(tx, txns) + 1
                 /\ loans' = loans
           /\ (batch.pc = "monthly update" /\ BatchStep /\ loans' # loans) =>
                 /\ DOMAIN loans' = DOMAIN loans
                 /\ loans'[loan.ID] = [loan EXCEPT !.Balance = loan.Balance + a,
                                                   !.AccruedInterest = 0]
                 /\ \A j \in DOMAIN loans \ {loan.ID} : loans'[j] = loans[j]
                 /\ txns' = txns]_vars

\* Loan 1, of principal 2 and statement day 1, was capitalized on the 1st
\* with accrued interest 2: its balance is 4, its accrued interest 0, and
\* one interest Transaction of 2 is stored.
C15_Witness ==
    /\ today = 1
    /\ batch.pc = "idle"
    /\ 1 \in StoredIDs
    /\ loans[1].StatementCycleDay = 1
    /\ loans[1].Status = "active"
    /\ loans[1].Balance = 4
    /\ loans[1].AccruedInterest = 0
    /\ TransactionsOf(1, "interest") = 1
    /\ CopiesIn(Transaction(1, 2, "interest"), txns) = 1

(***************************************************************************)
(* C16.  Capitalization happens once per statement cycle: no loan has      *)
(* more than one interest Transaction of one calendar month.  The dates    *)
(* of the model are the 31st of a month and the 1st of the next, and no    *)
(* loan that accrues interest has the 31st as its statement day, so the    *)
(* interest Transactions of a loan are all of the month of the 1st.        *)
(***************************************************************************)
C16_OneCapitalizationPerMonth ==
    \A id \in 1..MaxLoans : TransactionsOf(id, "interest") <= 1

(***************************************************************************)
(* C17.  An accrual of CalculateDailyInterest sets accruedInterest to the  *)
(* accrued interest read + balance x effectiveRate / 365 exactly, with no  *)
(* rounded intermediate, leaves the balance as read and sets the last      *)
(* accrual date to the date of the pass.                                   *)
(***************************************************************************)
C17_AccrualExact ==
    [][(batch.pc = "daily" /\ BatchStep /\ loans' # loans) =>
          LET loan == batch.snap[batch.idx]
              row == loans'[loan.ID]
          IN  /\ 365 * (row.AccruedInterest - loan.AccruedInterest)
                     = loan.Balance * loan.InterestRate
              /\ row.Balance = loan.Balance
              /\ row.LastInterestCalculationDate = batch.date]_vars

(***************************************************************************)
(* C18.  DeleteLoan of a stored loan removes the loan and all of its       *)
(* Transactions in one step and leaves every other loan and Transaction    *)
(* as it was: afterwards the loan is not found in the store and no        *)
(* Transaction of the loan is stored.  A DeleteLoan that fails leaves      *)
(* every loan and every Transaction in place.                              *)
(***************************************************************************)
C18_DeleteAtomic ==
    [][ret'.op = "DeleteLoan" =>
          LET id == ret'.id
          IN  IF ret'.res = "ok"
              THEN /\ id \in DOMAIN loans
                   /\ DOMAIN loans' = DOMAIN loans \ {id}
                   /\ id \notin DOMAIN loans'
                   /\ \A j \in DOMAIN loans' : loans'[j] = loans[j]
                   /\ \A t \in BagToSet(txns') : t.LoanID # id
                   /\ \A t \in BagToSet(txns) :
                         t.LoanID # id => CopiesIn(t, txns') = CopiesIn(t, txns)
                   /\ BagToSet(txns') \subseteq BagToSet(txns)
              ELSE loans' = loans /\ txns' = txns]_vars

\* Loan 1, on which caller 1 had recorded a payment of 1, has been deleted:
\* it is not stored and no Transaction of it is left.
C18_Witness ==
    /\ ret = Return("DeleteLoan", 0, 1, "ok")
    /\ pay[1].pc = "idle"
    /\ pay[1].returned = Transaction(1, 1, "payment")
    /\ 1 \notin StoredIDs
    /\ \A t \in BagToSet(txns) : t.LoanID # 1

(***************************************************************************)
(* C19.  Every stored Transaction references a loan that is stored, in     *)
(* every reachable state.                                                  *)
(***************************************************************************)
C19_NoOrphanTransaction ==
    \A t \in BagToSet(txns) : t.LoanID \in StoredIDs

(***************************************************************************)
(* C20.  No interest Transaction is left for a capitalization whose loan   *)
(* update was not persisted: when ApplyMonthlyInterest has stored the      *)
(* interest Transaction of a loan that is still stored, the step that      *)
(* ends the capitalization stores the loan with the interest added.        *)
(***************************************************************************)
C20_InterestTransactionHasUpdate ==
    [][LET id == batch.loan.ID
           tx == Transaction(id, batch.snap[batch.idx].AccruedInterest,
                             "interest")
       IN  (/\ batch.pc = "monthly update"
            /\ BatchStep
            /\ id \in Kept
            /\ CopiesIn(tx, txns) > 0)
           => loans'[id] = batch.loan]_vars

\* The step leaves the Transactions of loan id as they are.
SameTransactions(id) ==
    \A t \in BagToSet(txns) \cup BagToSet(txns') :
        t.LoanID = id => CopiesIn(t, txns') = CopiesIn(t, txns)

\* The step is a call of UpdateLoan or DeleteLoan.
CrudStep == calls' # calls /\ ret'.op \in {"UpdateLoan", "DeleteLoan"}

\* The step is one of the loop of a batch pass in which a store call failed.
FailureLogged ==
    /\ batch.pc # "idle"
    /\ ret'.op \in {"CalculateDailyInterest", "ApplyMonthlyInterest"}
    /\ ret' # ret

\* The pass goes on with the next loan of its list, if there is one.
PassGoesOn ==
    batch.idx < Len(batch.snap) =>
        /\ batch'.idx = batch.idx + 1
        /\ batch'.snap = batch.snap
        /\ batch'.date = batch.date
        /\ batch'.pc = (IF batch.pc = "daily" THEN "daily" ELSE "monthly")

(***************************************************************************)
(* C21.  A closed loan is left alone: no step of CalculateDailyInterest    *)
(* or ApplyMonthlyInterest and no call of UpdateLoan or DeleteLoan         *)
(* changes the stored record or the Transactions of a loan that is         *)
(* closed.                                                                 *)
(***************************************************************************)
C21_ClosedLoanUntouched ==
    [][\A id \in DOMAIN loans :
          (loans[id].Status = "closed" /\ (BatchStep \/ CrudStep))
              => /\ id \in DOMAIN loans'
                 /\ loans'[id] = loans[id]
                 /\ SameTransactions(id)]_vars

(***************************************************************************)
(* C22.  Every stored loan with status closed has balance 0, in every      *)
(* reachable state.                                                        *)
(***************************************************************************)
C22_ClosedHasZeroBalance ==
    \A id \in StoredIDs : loans[id].Status = "closed" => loans[id].Balance = 0

(***************************************************************************)
(* C23.  Every stored loan with balance 0 has status closed, in every      *)
(* reachable state.                                                        *)
(***************************************************************************)
C23_ZeroBalanceIsClosed ==
    \A id \in StoredIDs : loans[id].Balance = 0 => loans[id].Status = "closed"

(***************************************************************************)
(* C24.  CalculateDailyInterest is re-entrant after a halt.  A halt        *)
(* changes no loan and no Transaction.  A pass reads every active loan.    *)
(* Each step of its loop leaves a loan read with the date of the pass as   *)
(* its last accrual date as it is (a loan committed before the halt is     *)
(* not accrued again), stores a loan read with another date and a          *)
(* positive daily interest with that interest added once and the date of   *)
(* the pass, unless the store call fails, and goes on to the next loan.    *)
(***************************************************************************)
C24_AccrualReentrant ==
    [][/\ ret'.res = "halted" => loans' = loans /\ txns' = txns
       /\ (batch.pc = "idle" /\ batch'.pc = "daily") =>
             /\ batch'.idx = 1
             /\ batch'.date = today
             /\ \A id \in StoredIDs :
                   loans[id].Status = "active" =>
                       \E i \in 1..Len(batch'.snap) : batch'.snap[i] = loans[id]
       /\ (batch.pc = "daily" /\ BatchStep /\ ret'.res # "halted") =>
             LET loan == batch.snap[batch.idx]
                 interest == loan.Balance * Div(loan.InterestRate, 365)
             IN  /\ loan.LastInterestCalculationDate = batch.date
                       => loans' = loans
                 /\ (/\ loan.LastInterestCalculationDate # batch.date
                     /\ interest > 0
                     /\ ret' = NoReturn)
                       => /\ loan.ID \in Kept
                          /\ loans'[loan.ID] =
                                [loan EXCEPT
                                    !.AccruedInterest = @ + interest,
                                    !.LastInterestCalculationDate = batch.date]
                 /\ txns' = txns
                 /\ PassGoesOn]_vars

\* A pass on a date on which loan 1 is accrued and loan 2 is not has gone
\* past loan 1, left it as it was, and is at loan 2.
C24_Witness ==
    /\ batch.pc = "daily"
    /\ batch.idx = 2
    /\ batch.date = today
    /\ StoredIDs = {1, 2}
    /\ loans[1] = batch.snap[1]
    /\ loans[1].LastInterestCalculationDate = today
    /\ loans[1].AccruedInterest = 2
    /\ loans[2] = batch.snap[2]
    /\ loans[2].LastInterestCalculationDate = NoDate
    /\ loans[2].Balance = 2

(***************************************************************************)
(* C25.  A store call that fails for one loan in the loop of a batch pass  *)
(* does not end the pass: the step changes no loan and no Transaction,     *)
(* and the pass goes on with the next loan of its list.                    *)
(***************************************************************************)
C25_FailureDoesNotAbortPass ==
    [][FailureLogged =>
          /\ loans' = loans
          /\ txns' = txns
          /\ PassGoesOn]_vars

\* The UpdateLoan of the accrual of loan 1 has failed: loan 1 is as it was
\* read and the pass is at loan 2.
C25_Witness ==
    /\ ret = Logged("CalculateDailyInterest", 1, "Error updating loan")
    /\ batch.pc = "daily"
    /\ batch.idx = 2
    /\ Len(batch.snap) = 2
    /\ 1 \in StoredIDs
    /\ loans[1] = batch.snap[1]
    /\ loans[1].AccruedInterest = 0

(***************************************************************************)
(* C26.  Every stored Transaction, of whatever type, has an amount that    *)
(* is strictly positive, in every reachable state.                         *)
(***************************************************************************)
C26_AmountsPositive ==
    \A t \in BagToSet(txns) : t.Amount > 0

(***************************************************************************)
(* C27.  The fields fixed at creation stay fixed: no step changes the      *)
(* identifier, the principal or the statementCycleDay of a stored loan.    *)
(***************************************************************************)
C27_CreationFieldsFixed ==
    [][\A id \in Kept :
          /\ loans'[id].ID = loans[id].ID
          /\ loans'[id].Principal = loans[id].Principal
          /\ loans'[id].StatementCycleDay = loans[id].StatementCycleDay]_vars

(***************************************************************************)
(* C28.  Every stored loan has its statementCycleDay in 1..28, in every    *)
(* reachable state.                                                        *)
(***************************************************************************)
C28_StatementDayInRange ==
    \A id \in StoredIDs : loans[id].StatementCycleDay \in 1..28

(***************************************************************************)
(* C29.  UpdateLoan and DeleteLoan for an id that is not stored return     *)
(* "loan not found" (or the store's own failure) and change no loan and    *)
(* no Transaction: UpdateLoan creates no loan.                             *)
(***************************************************************************)
C29_UnknownLoanNotFound ==
    [][(CrudStep /\ ret'.id \notin DOMAIN loans) =>
          /\ ret'.res \in {"loan not found", "failed to update loan",
                           "failed to delete loan"}
          /\ loans' = loans
          /\ txns' = txns]_vars

\* UpdateLoan for loan 2, which is not stored, has returned "loan not
\* found": loan 1 and its disbursement are the whole store.
C29_Witness ==
    /\ ret = Return("UpdateLoan", 0, 2, "loan not found")
    /\ StoredIDs = {1}
    /\ BagCardinality(txns) = 1
    /\ HasTransaction(1, "disbursement")

(***************************************************************************)
(* C30.  CalculateDailyInterest appends no Transaction and changes no      *)
(* loan's balance or status: a step of the pass changes nothing of the     *)
(* store but the accruedInterest and the last accrual date of a loan.      *)
(***************************************************************************)
C30_AccrualFrame ==
    [][((batch.pc = "daily" \/ batch'.pc = "daily") /\ BatchStep) =>
          /\ txns' = txns
          /\ DOMAIN loans' = DOMAIN loans
          /\ \A id \in DOMAIN loans :
                loans'[id] =
                    [loans[id] EXCEPT
                        !.AccruedInterest = loans'[id].AccruedInterest,
                        !.LastInterestCalculationDate =
                            loans'[id].LastInterestCalculationDate]]_vars

(***************************************************************************)
(* C31.  ApplyMonthlyInterest leaves alone a loan it read off its          *)
(* statement day (whatever its accruedInterest) or with accruedInterest    *)
(* 0: the step of the pass on such a loan changes no loan, appends no      *)
(* Transaction and prepares no write of the loan.                          *)
(***************************************************************************)
C31_NoCapitalizationOffDayOrZero ==
    [][(batch.pc = "monthly" /\ BatchStep) =>
          LET loan == batch.snap[batch.idx]
          IN  (loan.StatementCycleDay # DayOfMonth(batch.date)
                  \/ loan.AccruedInterest = 0) =>
                 /\ loans' = loans
                 /\ txns' = txns
                 /\ batch'.pc # "monthly update"]_vars

\* A pass of the 31st has gone past loan 1, whose statement day is the 1st
\* and which has accrued interest: the loan is stored as it was read and has
\* no interest Transaction.
C31_Witness ==
    /\ batch.pc = "monthly"
    /\ batch.idx = 2
    /\ batch.snap[1].StatementCycleDay # DayOfMonth(batch.date)
    /\ batch.snap[1].AccruedInterest > 0
    /\ batch.snap[1].ID \in StoredIDs
    /\ loans[batch.snap[1].ID] = batch.snap[1]
    /\ ~HasTransaction(batch.snap[1].ID, "interest")

(***************************************************************************)
(* C32.  CalculateDailyInterest leaves alone a loan whose computed daily   *)
(* interest, balance x (effectiveRate / 365), is not strictly positive:    *)
(* the step of the pass on such a loan changes no loan and no Transaction, *)
(* and a row the pass writes has more accruedInterest than the row read.   *)
(***************************************************************************)
C32_NoAccrualUnlessPositive ==
    [][(batch.pc = "daily" /\ BatchStep) =>
          LET loan == batch.snap[batch.idx]
          IN  /\ loan.Balance * Div(loan.InterestRate, daysInYear) <= 0 =>
                    loans' = loans /\ txns' = txns
              /\ \A id \in Kept :
                    loans'[id] # loans[id] =>
                        loans'[id].AccruedInterest > loan.AccruedInterest]_vars

\* A pass has gone past loan 1, which has a balance below zero at a rate
\* above zero (a daily interest below zero): the loan is stored as it was
\* read, with no accrued interest and no accrual date.
C32_Witness ==
    /\ batch.pc = "daily"
    /\ batch.idx = 2
    /\ batch.snap[1].Balance < 0
    /\ Div(batch.snap[1].InterestRate, daysInYear) > 0
    /\ batch.snap[1].ID \in StoredIDs
    /\ loans[batch.snap[1].ID] = batch.snap[1]
    /\ loans[batch.snap[1].ID].AccruedInterest = 0
    /\ loans[batch.snap[1].ID].LastInterestCalculationDate = NoDate

(***************************************************************************)
(* The runs C33 speaks of: every store call succeeds, UpdateLoan is not    *)
(* called and the process is not stopped.                                  *)
(***************************************************************************)
\* What a call answers, or a pass prints, when a store call of it failed.
StoreFailures ==
    {"failed to store loan", "failed to store disbursement transaction",
     "failed to get loan", "failed to update loan balance",
     "failed to store payment transaction", "failed to delete loan",
     "Error getting active loans", "Error updating loan",
     "Error creating monthly interest transaction"}

\* No store call of the step failed.
StoreCallsSucceed == ret'.res \notin StoreFailures

NextWithoutFailure ==
    \/ CreateLoan_Store /\ StoreCallsSucceed
    \/ CreateLoan_Transaction /\ StoreCallsSucceed
    \/ \E p \in Callers : RecordPayment_GetLoan(p) /\ StoreCallsSucceed
    \/ \E p \in Callers : RecordPayment_UpdateLoan(p) /\ StoreCallsSucceed
    \/ \E p \in Callers : RecordPayment_Transaction(p) /\ StoreCallsSucceed
    \/ CalculateDailyInterest_Start /\ StoreCallsSucceed
    \/ CalculateDailyInterest_Loan /\ StoreCallsSucceed
    \/ ApplyMonthlyInterest_Start /\ StoreCallsSucceed
    \/ ApplyMonthlyInterest_Transaction /\ StoreCallsSucceed
    \/ ApplyMonthlyInterest_UpdateLoan /\ StoreCallsSucceed
    \/ DeleteLoan /\ StoreCallsSucceed
    \/ NextDay

SpecWithoutFailure == Init /\ [][NextWithoutFailure]_vars

\* What the Transactions of a loan say its balance is: the principal plus
\* the interest capitalized minus the payments.
Reconciled(id) ==
    loans[id].Principal
        + SumAmounts({t \in BagToSet(txns) :
                         t.LoanID = id /\ t.Type = "interest"})
        - SumAmounts({t \in BagToSet(txns) :
                         t.LoanID = id /\ t.Type = "payment"})

(***************************************************************************)
(* C33.  Per-loan reconciliation, in runs without store failures and       *)
(* without UpdateLoan: whenever no call is in flight, an active loan has   *)
(* balance = principal + its interest Transactions - its payment           *)
(* Transactions, and a closed loan has balance 0 with that expression      *)
(* <= 0.                                                                   *)
(***************************************************************************)
C33_LedgerReconciles ==
    Quiescent =>
        \A id \in StoredIDs :
            /\ loans[id].Status = "active" =>
                  loans[id].Balance = Reconciled(id)
            /\ loans[id].Status = "closed" =>
                  loans[id].Balance = 0 /\ Reconciled(id) <= 0

=============================================================================
